---- MODULE Spec2Model ----
(***************************************************************************)
(* A model of the attr_alias crate: the alias file loader (Aliases::parse), *)
(* the resolver (Aliases::resolve_args, Aliases::resolve), the lazily       *)
(* initialised table (Aliases::get), the tree walker (eval_item) and the    *)
(* macro entry points (attr_alias, eval_block, eval).                       *)
(*                                                                         *)
(* Text (a Rust String) is a sequence of lexemes: identifier names,         *)
(* punctuation characters, literals, delimiter characters and the line      *)
(* break "\n".  A TokenStream is a sequence of token trees.  to_string and  *)
(* from_str convert between the two, as proc_macro does.                    *)
(***************************************************************************)
EXTENDS Integers, Sequences, FiniteSets, TLC

VARIABLES
  file,       \* the alias file on disk: [exists, text], and as history the
              \* definitions it was written from: [defs, listed]
  ALIASES,    \* the static OnceLock<Aliases> of Aliases::get
  parse_runs, \* history: how many times Aliases::parse has been entered
  parse_log,  \* history: the result of the last run of Aliases::parse
  calls,      \* how many calls have been made in this process
  call,       \* the macro call being answered, with its inputs
  ret,        \* its internal result and its output token stream
  pc,         \* per thread: the position inside Aliases::get
  parsed,     \* per thread: the table its own Aliases::parse returned
  late        \* per thread, history: the call began after ALIASES was set

vars == <<file, ALIASES, parse_runs, parse_log, calls, call, ret,
          pc, parsed, late>>

-----------------------------------------------------------------------------
(* Token model (proc_macro::TokenTree)                                      *)

Ident(name) == [k |-> "Ident", s |-> name, ts |-> <<>>]

Punct(c) == [k |-> "Punct", s |-> c, ts |-> <<>>]

Literal(text) == [k |-> "Literal", s |-> text, ts |-> <<>>]

Group(delimiter, stream) == [k |-> "Group", s |-> delimiter, ts |-> stream]

Delimiters == {"Parenthesis", "Bracket", "Brace", "None"}

OpenChar(d) ==
  CASE d = "Parenthesis" -> <<"(">>
    [] d = "Bracket" -> <<"[">>
    [] d = "Brace" -> <<"{">>
    [] OTHER -> <<>>

CloseChar(d) ==
  CASE d = "Parenthesis" -> <<")">>
    [] d = "Bracket" -> <<"]">>
    [] d = "Brace" -> <<"}">>
    [] OTHER -> <<>>

OpenChars == {"(", "[", "{"}

CloseChars == {")", "]", "}"}

DelimOf(c) ==
  CASE c \in {"(", ")"} -> "Parenthesis"
    [] c \in {"[", "]"} -> "Bracket"
    [] OTHER -> "Brace"

PunctChars == {"*", ",", "=", "#", "!", ":", ";", "&", "'"}

(* the literals that occur in the alias files and macro inputs drawn *)
LiteralTexts == {"\"macos\""}

(* TokenStream::to_string: the tokens in order, a group as its delimiters    *)
(* around its stream; a None-delimited group prints its stream alone.        *)
RECURSIVE to_string(_)
to_string(stream) ==
  IF stream = <<>> THEN <<>>
  ELSE LET t == Head(stream) IN
       (IF t.k = "Group"
          THEN OpenChar(t.s) \o to_string(t.ts) \o CloseChar(t.s)
          ELSE <<t.s>>) \o to_string(Tail(stream))

(* Rust results *)
NoSpan == [k |-> "none", s |-> "", ts |-> <<>>]

(* Span::call_site() *)
call_site == [k |-> "call_site", s |-> "", ts |-> <<>>]

NoError == [message |-> "", span |-> NoSpan]

Ok(v) == [ok |-> TRUE, val |-> v, err |-> NoError]

Err(e) == [ok |-> FALSE, val |-> <<>>, err |-> e]

LexError == [message |-> "lex error", span |-> call_site]

TokenOf(c) ==
  IF c \in PunctChars THEN Punct(c)
  ELSE IF c \in LiteralTexts THEN Literal(c)
  ELSE Ident(c)

(* str::parse::<TokenStream>: a stack of open groups; a closing delimiter   *)
(* must match the innermost open one and none may stay open.                *)
RECURSIVE lex(_, _, _)
lex(text, i, stack) ==
  IF i > Len(text)
    THEN IF Len(stack) = 1 THEN Ok(stack[1].ts) ELSE Err(LexError)
  ELSE LET c == text[i]
           n == Len(stack)
       IN IF c = "\n" THEN lex(text, i + 1, stack)
          ELSE IF c \in OpenChars
            THEN lex(text, i + 1, Append(stack, [d |-> DelimOf(c), ts |-> <<>>]))
          ELSE IF c \in CloseChars
            THEN IF n > 1 /\ stack[n].d = DelimOf(c)
                   THEN lex(text, i + 1,
                            [SubSeq(stack, 1, n - 1) EXCEPT
                               ![n - 1].ts = Append(@, Group(stack[n].d, stack[n].ts))])
                   ELSE Err(LexError)
          ELSE lex(text, i + 1, [stack EXCEPT ![n].ts = Append(@, TokenOf(c))])

from_str(text) == lex(text, 1, <<[d |-> "None", ts |-> <<>>]>>)

-----------------------------------------------------------------------------
(* Errors (struct Error: a span and a message)                              *)

Error_new(message) == [message |-> message, span |-> call_site]

Error_new_from(error, message) ==
  [message |-> "error " \o message, span |-> call_site]

Error_token(token) == [message |-> "unexpected token", span |-> token]

(* format!("unknown alias '{}'", name) at the name's span *)
UnknownAlias(name) ==
  [message |-> "unknown alias '" \o name.s \o "'", span |-> name]

(* a panic of the macro (Option::expect, Result::expect) *)
Panic(message) == [message |-> "panic: " \o message, span |-> NoSpan]

(* next!(item, type): the next token, which must be of the type *)
next(stream, type) ==
  IF stream = <<>> THEN Err(Error_new("unexpected end of tokens"))
  ELSE IF Head(stream).k = type THEN Ok(Head(stream))
  ELSE Err(Error_token(Head(stream)))

(* next!(item, type, method => value): and x.method() must equal the value; *)
(* to_string, delimiter and as_char all read the field s of the token       *)
next_eq(stream, type, value) ==
  IF stream = <<>> THEN Err(Error_new("unexpected end of tokens"))
  ELSE IF Head(stream).k = type /\ Head(stream).s = value THEN Ok(Head(stream))
  ELSE Err(Error_token(Head(stream)))

is_comma(token) == token.k = "Punct" /\ token.s = ","

(* parse_empty: the first remaining token, if any, is unexpected *)
parse_empty(tokens) ==
  IF tokens = <<>> THEN Ok(TRUE) ELSE Err(Error_token(Head(tokens)))

Rest(stream, n) == SubSeq(stream, n + 1, Len(stream))

(* Iterator::take_while(|x| !is_comma(x)): the length of the prefix taken *)
RECURSIVE take_while_not_comma(_)
take_while_not_comma(stream) ==
  IF stream = <<>> \/ is_comma(Head(stream)) THEN 0
  ELSE 1 + take_while_not_comma(Tail(stream))

None == [some |-> FALSE, ts |-> <<>>]

Some(stream) == [some |-> TRUE, ts |-> stream]

(* expect: a failure here is a panic of the macro *)
expect(r, message) == IF r.ok THEN r ELSE Err(Panic(message))

(* the operator "?": the value of an Ok goes on to f, an Err is returned *)
try(r, f(_)) == IF r.ok THEN f(r.val) ELSE Err(r.err)

(* Result::map_err(|x| Error::new_from(x, message)) *)
map_err(r, message) == IF r.ok THEN r ELSE Err(Error_new_from(r.err, message))

(* the pattern is the n tokens taken; take_while has consumed the comma     *)
(* that ended it, and nothing may follow; an empty pattern is filtered to   *)
(* None                                                                     *)
take_pattern(after, n) ==
  try(parse_empty(Rest(after, n + 1)),
      LAMBDA e : IF n = 0 THEN Ok(None) ELSE Ok(Some(SubSeq(after, 1, n))))

(* the optional second argument: a comma, then the tokens up to the next    *)
(* comma                                                                    *)
pattern_arg(args) ==
  IF Len(args) < 2 THEN Ok(None)
  ELSE IF ~is_comma(args[2]) THEN Err(Error_token(args[2]))
  ELSE take_pattern(Rest(args, 2), take_while_not_comma(Rest(args, 2)))

DEFAULT_NAME == "default"

(* the name "default" is looked up like any other name *)
lookup_alias_no_filter(table, name) ==
  IF name.s \in DOMAIN table THEN Ok(table[name.s]) ELSE Err(UnknownAlias(name))

(* a name that is not in the table expands to nothing *)
lookup_alias_or_default(table, name) ==
  IF name.s # DEFAULT_NAME /\ name.s \in DOMAIN table
    THEN Ok(table[name.s])
    ELSE Ok(<<>>)

(* the table lookup: the name "default" is filtered out before the lookup *)
lookup_alias(table, name) ==
  IF name.s # DEFAULT_NAME /\ name.s \in DOMAIN table
    THEN Ok(table[name.s])
    ELSE Err(UnknownAlias(name))

(* the index of the first "*" of the text, 0 if there is none *)
RECURSIVE find_star(_, _)
find_star(text, i) ==
  IF i > Len(text) THEN 0
  ELSE IF text[i] = "*" THEN i ELSE find_star(text, i + 1)

(* str::replace('*', alias): every "*" replaced *)
RECURSIVE replace_every(_, _)
replace_every(text, alias) ==
  IF text = <<>> THEN <<>>
  ELSE (IF Head(text) = "*" THEN alias ELSE <<Head(text)>>)
       \o replace_every(Tail(text), alias)

(* str::replacen('*', alias, 1) *)
replacen(text, alias) ==
  LET i == find_star(text, 1)
  IN IF i = 0 THEN text
     ELSE SubSeq(text, 1, i - 1) \o alias \o SubSeq(text, i + 1, Len(text))

(* the effective pattern never falls back to the default alias *)
expansion_text_no_default(table, pattern, alias) ==
  IF pattern.some THEN replacen(to_string(pattern.ts), alias) ELSE alias

(* the text that is parsed into the result: the explicit pattern, else the  *)
(* default alias, with the first "*" replaced; else the alias itself        *)
expansion_text(table, pattern, alias) ==
  IF pattern.some THEN replacen(to_string(pattern.ts), alias)
  ELSE IF DEFAULT_NAME \in DOMAIN table
    THEN replacen(table[DEFAULT_NAME], alias)
  ELSE alias

ATTR_ALIAS == "attr_alias"

RECURSIVE resolve_args(_, _)
RECURSIVE resolve(_, _)

(* if let Some(pattern) = &mut pattern { self.resolve(pattern)? }: the      *)
(* pattern as it is after Aliases::resolve                                  *)
resolve_pattern(table, pattern) ==
  IF pattern.some
    THEN try(resolve(table, pattern.ts), LAMBDA r : Ok(Some(r.attr)))
    ELSE Ok(None)

(* Aliases::resolve_args: Result<TokenStream> *)
resolve_args(table, args) ==
  try(next(args, "Ident"), LAMBDA name :
  try(pattern_arg(args), LAMBDA pattern :
  try(lookup_alias(table, name), LAMBDA alias :
  try(resolve_pattern(table, pattern), LAMBDA p :
  expect(from_str(expansion_text(table, p, alias)), "error parsing alias")))))

(* nothing is taken for an invocation *)
is_invocation_never(attr) == FALSE

(* only attr_alias followed by one parenthesis group and nothing else is    *)
(* taken for an invocation                                                  *)
is_invocation_full_shape(attr) ==
  /\ Len(attr) = 2
  /\ next_eq(attr, "Ident", ATTR_ALIAS).ok
  /\ next_eq(Tail(attr), "Group", "Parenthesis").ok

(* next!(attr_iter, Ident, to_string => "attr_alias").ok(): whether the     *)
(* attribute starts with the identifier attr_alias                          *)
is_invocation(attr) == next_eq(attr, "Ident", ATTR_ALIAS).ok

(* Aliases::resolve: Result<bool> and the attribute as it leaves the call:  *)
(* [changed, attr].  Not an invocation (no leading identifier attr_alias):  *)
(* Ok(false); a leading attr_alias not followed by exactly one parenthesis  *)
(* group: an error; the attribute is overwritten only by a resolved         *)
(* invocation.                                                              *)
resolve(table, attr) ==
  IF ~is_invocation(attr) THEN Ok([changed |-> FALSE, attr |-> attr])
  ELSE
    try(next_eq(Rest(attr, 1), "Group", "Parenthesis"), LAMBDA args :
    try(parse_empty(Rest(attr, 2)), LAMBDA e :
    try(resolve_args(table, args.ts), LAMBDA x :
    Ok([changed |-> TRUE, attr |-> x]))))

-----------------------------------------------------------------------------
(* The alias file loader (Aliases::parse)                                   *)

(* str::split("\n*"): the pieces between the occurrences of a line break    *)
(* followed by "*"; cur is the piece being read                             *)
RECURSIVE split(_, _)
split(text, cur) ==
  IF text = <<>> THEN <<cur>>
  ELSE IF Len(text) >= 2 /\ text[1] = "\n" /\ text[2] = "*"
    THEN <<cur>> \o split(Rest(text, 2), <<>>)
  ELSE split(Tail(text), Append(cur, Head(text)))

(* the first piece is kept even when it is empty *)
next_if_eq_empty_kept(pieces) == pieces

(* Peekable::next_if_eq(&""): an empty first piece is dropped *)
next_if_eq_empty(pieces) ==
  IF pieces # <<>> /\ Head(pieces) = <<>> THEN Tail(pieces) ELSE pieces

(* HashMap::insert: the table with the entry set *)
insert(table, key, value) ==
  [x \in DOMAIN table \cup {key} |-> IF x = key THEN value ELSE table[x]]

(* the duplicate is not noticed: the later entry replaces the earlier one *)
insert_is_some_never(table, key) == FALSE

(* HashMap::insert(..).is_some(): the key was already in the table *)
insert_is_some(table, key) == key \in DOMAIN table

EmptyTable == [x \in {} |-> <<>>]

(* the loop over the definitions, in file order; the first error ends it *)
RECURSIVE parse_aliases(_, _)
parse_aliases(aliases, parsed_aliases) ==
  IF aliases = <<>> THEN Ok(parsed_aliases)
  ELSE
    try(map_err(from_str(Head(aliases)), "parsing alias file"), LAMBDA tokens :
    try(next(tokens, "Ident"), LAMBDA alias_name :
    try(next_eq(Rest(tokens, 1), "Punct", "="), LAMBDA eq :
    try(resolve(parsed_aliases, Rest(tokens, 2)), LAMBDA alias :
      IF insert_is_some(parsed_aliases, alias_name.s)
        THEN Err(Error_new("duplicate alias name in alias file"))
        ELSE parse_aliases(Tail(aliases),
               insert(parsed_aliases, alias_name.s, to_string(alias.attr)))))))

(* Aliases::parse: Result<Aliases> *)
parse(f) ==
  IF ~f.exists THEN Err(Error_new_from(NoError, "opening alias file"))
  ELSE parse_aliases(next_if_eq_empty(split(<<"\n">> \o f.text, <<>>)), EmptyTable)


-----------------------------------------------------------------------------
(* The lazily initialised table (Aliases::get)                              *)

(* OnceLock::new() *)
OnceLock_new == [set |-> FALSE, table |-> EmptyTable]

(* OnceLock::set: stores the value unless the cell is already set *)
OnceLock_set(cell, value) ==
  IF cell.set THEN cell ELSE [set |-> TRUE, table |-> value]

(* the check is skipped: the cell is always taken to be empty *)
is_none_always(cell) == TRUE

(* ALIASES.get().is_none() *)
is_none(cell) == ~cell.set

(* the shared state a call of get reads and writes: the cell, and the       *)
(* history of the runs of parse                                             *)
GetState(cell, runs, log) == [ALIASES |-> cell, runs |-> runs, log |-> log]

(* ALIASES.set(Self::parse()?) and the return: the error of parse, or the   *)
(* table the cell holds after the set                                       *)
get_parsed(g, r) ==
  IF ~r.ok THEN [res |-> Err(r.err), g |-> GetState(g.ALIASES, g.runs + 1, r)]
  ELSE [res |-> Ok(OnceLock_set(g.ALIASES, r.val).table),
        g |-> GetState(OnceLock_set(g.ALIASES, r.val), g.runs + 1, r)]

(* Aliases::get, run without interruption: [res: Result<&Aliases>, g] *)
get(g, f) ==
  IF is_none(g.ALIASES) THEN get_parsed(g, parse(f))
  ELSE [res |-> Ok(g.ALIASES.table), g |-> g]

-----------------------------------------------------------------------------
(* The tree walker (eval_item) and the macro entry points                   *)

(* the flag is set by every punctuation token *)
attr_after_any_punct(attr, token) == token.k = "Punct"

(* the flag after a token: set by "#", kept by "!", cleared by all else *)
attr_after(attr, token) ==
  token.k = "Punct" /\ (token.s = "#" \/ (attr /\ token.s = "!"))

(* attr && delimiter == Delimiter::Bracket *)
is_attr_group(attr, delimiter) == attr /\ delimiter = "Bracket"

WalkResult(ok, val, err, st) == [ok |-> ok, val |-> val, err |-> err, st |-> st]

(* eval_item: Result<TokenStream> and the state it leaves: st.g (the table  *)
(* cell), st.resolved (the &mut bool), st.handed (history: the streams      *)
(* handed to Aliases::resolve, in order)                                    *)
RECURSIVE eval_item(_, _, _)
RECURSIVE eval_tokens(_, _, _, _, _)
RECURSIVE eval_group(_, _, _, _)

(* the attribute group after Aliases::resolve: r is its result *)
eval_resolved(f, rest, acc, st, r) ==
  IF ~r.ok THEN WalkResult(FALSE, <<>>, r.err, st)
  ELSE eval_tokens(f, Tail(rest), FALSE,
                   Append(acc, Group(Head(rest).s, r.val.attr)),
                   [st EXCEPT !.resolved = @ \/ r.val.changed])

(* *resolved |= Aliases::get()?.resolve(&mut stream)?: a is what get gave *)
eval_attr(f, rest, acc, st, a) ==
  IF ~a.res.ok THEN WalkResult(FALSE, <<>>, a.res.err, [st EXCEPT !.g = a.g])
  ELSE eval_resolved(f, rest, acc,
                     [st EXCEPT !.g = a.g, !.handed = Append(@, Head(rest).ts)],
                     resolve(a.res.val, Head(rest).ts))

(* stream = eval_item(stream, resolved)?: sub is the result for the group *)
eval_group(f, rest, acc, sub) ==
  IF ~sub.ok THEN sub
  ELSE eval_tokens(f, Tail(rest), FALSE,
                   Append(acc, Group(Head(rest).s, sub.val)), sub.st)

(* the map over the tokens of one stream, attr being the flag *)
eval_tokens(f, rest, attr, acc, st) ==
  IF rest = <<>> THEN WalkResult(TRUE, acc, NoError, st)
  ELSE IF Head(rest).k # "Group"
    THEN eval_tokens(f, Tail(rest), attr_after(attr, Head(rest)),
                     Append(acc, Head(rest)), st)
  ELSE IF is_attr_group(attr, Head(rest).s)
    THEN eval_attr(f, rest, acc, st, get(st.g, f))
  ELSE eval_group(f, rest, acc, eval_item(f, Head(rest).ts, st))

eval_item(f, item, st) == eval_tokens(f, item, FALSE, <<>>, st)

Literal_string(text) == Literal("\"" \o text \o "\"")

(* path!(names): "::" and the name, for each name *)
RECURSIVE path(_)
path(names) ==
  IF names = <<>> THEN <<>>
  ELSE <<Punct(":"), Punct(":"), Ident(Head(names))>> \o path(Tail(names))

(* core_macro(name, arg): ::core::name!("arg"); *)
core_macro(name, arg) ==
  path(<<"core", name>>)
    \o <<Punct("!"), Group("Parenthesis", <<Literal_string(arg)>>), Punct(";")>>

(* Error::into_compile_error *)
into_compile_error(error) == core_macro("compile_error", error.message)

FILE == "src/attr-aliases.txt"

(* Aliases::create_trigger: const _: &'static [::core::primitive::u8] =     *)
(* ::core::include_bytes!("<cwd>/src/attr-aliases.txt");                    *)
create_trigger(cwd) ==
  IF ~cwd THEN Err(Error_new_from("io", "getting current directory"))
  ELSE Ok(<<Ident("const"), Ident("_"), Punct(":"), Punct("&"), Punct("'"),
            Ident("static"),
            Group("Bracket", path(<<"core", "primitive", "u8">>)),
            Punct("=")>> \o core_macro("include_bytes", FILE))

MacroResult(walk, out, g) == [walk |-> walk, out |-> out, g |-> g]

WalkStart(g) == [g |-> g, resolved |-> FALSE, handed |-> <<>>]

(* the trigger, or the error that stands for it *)
trigger_for(cwd, resolved) ==
  IF resolved THEN create_trigger(cwd)
  ELSE Err(Error_new("unnecessary attribute"))

(* Result::unwrap_or_else(Error::into_compile_error) *)
unwrap_or_compile_error(r) == IF r.ok THEN r.val ELSE into_compile_error(r.err)

(* result.extend(trigger) or result.extend(error.into_compile_error()) *)
eval_block_output(cwd, walk) ==
  MacroResult(walk,
    unwrap_or_compile_error(walk)
      \o unwrap_or_compile_error(trigger_for(cwd, walk.st.resolved)),
    walk.st.g)

(* eval_block: the walk's tokens or its error's diagnostic, then the        *)
(* trigger or the diagnostic of the error that stands for it                *)
eval_block(f, cwd, item, g) ==
  eval_block_output(cwd, eval_item(f, item, WalkStart(g)))

(* eval: the arguments must be empty; then eval_block *)
eval(f, cwd, args, item, g) ==
  IF args # <<>>
    THEN MacroResult(WalkResult(FALSE, <<>>, parse_empty(args).err, WalkStart(g)),
                     into_compile_error(parse_empty(args).err), g)
    ELSE eval_block(f, cwd, item, g)

(* the output of attr_alias: #[alias] before the item, or the diagnostic *)
attr_alias_output(item, a, alias) ==
  MacroResult(
    WalkResult(alias.ok, alias.val, alias.err,
               [g |-> a.g, resolved |-> alias.ok, handed |-> <<>>]),
    IF alias.ok THEN <<Punct("#"), Group("Bracket", alias.val)>> \o item
    ELSE into_compile_error(alias.err),
    a.g)

(* Aliases::get().and_then(|x| x.resolve_args(args)) *)
get_and_resolve_args(a, args) == try(a.res, LAMBDA x : resolve_args(x, args))

(* attr_alias *)
attr_alias(f, args, item, g) ==
  attr_alias_output(item, get(g, f), get_and_resolve_args(get(g, f), args))


-----------------------------------------------------------------------------
(* Bounds and the inputs drawn                                              *)

MaxDefs == 2

MaxCalls == 2

NThreads == 2

Threads == 1 .. NThreads

Paren(stream) == Group("Parenthesis", stream)

Bracket(stream) == Group("Bracket", stream)

Brace(stream) == Group("Brace", stream)

Star == Punct("*")

Comma == Punct(",")

(* attr_alias(args) *)
Invocation(args) == <<Ident(ATTR_ALIAS), Paren(args)>>

DefNames == {"a", "b", DEFAULT_NAME}

DefValues ==
  { <<Ident("x")>>,
    <<Ident("cfg"), Paren(<<Star>>)>>,
    Invocation(<<Ident("a"), Comma, Ident("not"), Paren(<<Star>>)>>),
    <<Ident("any"), Paren(Invocation(<<Ident("b")>>))>>,
    Invocation(<<Ident(DEFAULT_NAME)>>) }

(* one definition of the alias file: *name = value, and a line break *)
Definition(name, value) == <<"*", name, "=">> \o to_string(value) \o <<"\n">>

Def(n, v) == [name |-> n, value |-> v]

Defs == {Def(n, v) : n \in DefNames, v \in DefValues}

RECURSIVE FileText(_)
FileText(ds) ==
  IF ds = <<>> THEN <<>>
  ELSE Definition(Head(ds).name, Head(ds).value) \o FileText(Tail(ds))

DefLists == UNION {[1 .. n -> Defs] : n \in 0 .. MaxDefs}

(* a file written from a list of definitions *)
OnFile(ds) == [exists |-> TRUE, text |-> FileText(ds), defs |-> ds, listed |-> TRUE]

(* a file of any other text *)
OnDisk(text) == [exists |-> TRUE, text |-> text, defs |-> <<>>, listed |-> FALSE]

Missing == [exists |-> FALSE, text |-> <<>>, defs |-> <<>>, listed |-> FALSE]

(* files that are not a list of well-formed definitions: no "=", an         *)
(* unclosed group, a first line that does not start with "*"                *)
MalformedFiles ==
  { OnDisk(<<"*", "a", "x", "\n">>),
    OnDisk(<<"*", "a", "=", "(", "\n">>),
    OnDisk(<<"x", "\n", "*", "a", "=", "x", "\n">>) }

Files == {OnFile(ds) : ds \in DefLists} \cup MalformedFiles \cup {Missing}

InvokedNames == {"a", "b", DEFAULT_NAME, "zzz"}

Patterns ==
  { <<Ident("x")>>,
    <<Ident("cfg"), Paren(<<Star>>)>>,
    <<Ident("any"), Paren(<<Star, Comma, Star>>)>>,
    Invocation(<<Ident("a")>>),
    Invocation(<<Ident("b"), Comma, Star, Star>>),
    <<Ident(ATTR_ALIAS)>>,
    <<Ident("not"), Paren(Invocation(<<Ident("a")>>))>> }

(* the argument streams of an invocation: the name alone, the name and a    *)
(* comma, the name and a pattern (with or without a closing comma), and     *)
(* malformed ones                                                           *)
ArgStreams ==
  {<<Ident(n)>> : n \in InvokedNames}
    \cup {<<Ident(n), Comma>> : n \in InvokedNames}
    \cup {<<Ident(n), Comma>> \o p : n \in InvokedNames, p \in Patterns}
    \cup { <<>>,
           <<Comma>>,
           <<Ident("a"), Ident("b")>>,
           <<Ident("a"), Comma, Ident("cfg"), Paren(<<Star>>), Comma>>,
           <<Ident("a"), Comma, Ident("x"), Comma, Ident("x")>>,
           <<Ident(DEFAULT_NAME), Ident("x")>> }

Hash == Punct("#")

Bang == Punct("!")

Fn == Ident("f")

(* the trees handed to eval_block and eval *)
Items ==
  { <<Fn>>,
    <<Hash, Bracket(Invocation(<<Ident("a")>>)), Fn>>,
    <<Hash, Bang, Bracket(Invocation(<<Ident("a"), Comma, Ident("cfg"), Paren(<<Star>>)>>))>>,
    <<Hash, Bang, Bang, Bracket(Invocation(<<Ident("b")>>))>>,
    <<Brace(<<Paren(<<Brace(<<Hash, Bracket(Invocation(<<Ident("a")>>)), Fn>>)>>)>>)>>,
    <<Bracket(Invocation(<<Ident("a")>>))>>,
    <<Hash, Paren(Invocation(<<Ident("a")>>))>>,
    <<Hash, Bracket(<<Ident("cfg"), Paren(<<Ident("x")>>)>>), Fn>>,
    <<Hash, Fn, Bracket(Invocation(<<Ident("a")>>))>>,
    <<Bang, Bracket(Invocation(<<Ident("a")>>))>>,
    <<Hash, Bracket(Invocation(<<Ident("a")>>)), Hash, Bracket(Invocation(<<Ident("zzz")>>))>>,
    <<Hash, Bracket(Invocation(<<Ident("zzz")>>)), Hash, Bracket(Invocation(<<Ident("a")>>))>>,
    <<Hash, Bracket(<<Ident(ATTR_ALIAS)>>)>>,
    <<Hash, Bracket(<<Ident(ATTR_ALIAS), Paren(<<Ident("a")>>), Fn>>)>>,
    <<Hash, Bracket(<<Hash, Bracket(Invocation(<<Ident("a")>>))>>)>>,
    <<Hash, Bracket(<<Ident("doc")>>), Bracket(<<Hash, Bracket(Invocation(<<Ident("b")>>))>>)>>,
    <<Group("None", <<Hash, Bracket(Invocation(<<Ident("b")>>))>>), Fn>>,
    <<Hash, Bracket(<<>>), Brace(<<Hash, Bang, Bracket(Invocation(<<Ident(DEFAULT_NAME)>>))>>)>> }

-----------------------------------------------------------------------------
(* The process: macro calls answered one at a time                          *)

NoCall == [macro |-> "none", args |-> <<>>, item |-> <<>>, cwd |-> TRUE]

NoRet == [ok |-> FALSE, val |-> <<>>, err |-> NoError, resolved |-> FALSE,
          handed |-> <<>>, out |-> <<>>]

NoLog == Err(NoError)

InitShared ==
  /\ ALIASES = OnceLock_new
  /\ parse_runs = 0
  /\ parse_log = NoLog
  /\ calls = 0
  /\ call = NoCall
  /\ ret = NoRet
  /\ pc = [t \in Threads |-> "idle"]
  /\ parsed = [t \in Threads |-> EmptyTable]
  /\ late = [t \in Threads |-> FALSE]

(* the alias files the macro calls are answered from: the three aliases of  *)
(* which one refers to an earlier one, with and without a default; the      *)
(* example of the documentation; a file that invokes "default"; a file      *)
(* with a nested invocation; the empty file; no file                        *)
MacroFiles ==
  { OnFile(<<
      Def("a", <<Ident("x")>>),
      Def("b", Invocation(<<Ident("a"), Comma, Ident("not"), Paren(<<Star>>)>>)),
      Def(DEFAULT_NAME, <<Ident("cfg"), Paren(<<Star>>)>>)>>),
    OnFile(<<
      Def("a", <<Ident("x")>>),
      Def("b", <<Ident("any"), Paren(<<Star, Comma, Ident("y")>>)>>)>>),
    OnFile(<<
      Def("a", <<Ident("target_os"), Punct("="), Literal("\"macos\"")>>),
      Def(DEFAULT_NAME, <<Ident("cfg"), Paren(<<Star>>)>>)>>),
    OnFile(<<
      Def(DEFAULT_NAME, <<Ident("cfg"), Paren(<<Star>>)>>),
      Def("a", Invocation(<<Ident(DEFAULT_NAME)>>))>>),
    OnFile(<<
      Def("b", <<Ident("x")>>),
      Def("a", <<Ident("any"), Paren(Invocation(<<Ident("b")>>))>>)>>),
    OnFile(<<>>),
    Missing }

Init == file \in MacroFiles /\ InitShared

(* the state a macro call leaves: its record, its result and output, and    *)
(* the table cell with the history of parse                                 *)
Answer(macro, args, item, cwd, m) ==
  /\ call' = [macro |-> macro, args |-> args, item |-> item, cwd |-> cwd]
  /\ ret' = [ok |-> m.walk.ok, val |-> m.walk.val, err |-> m.walk.err,
             resolved |-> m.walk.st.resolved, handed |-> m.walk.st.handed,
             out |-> m.out]
  /\ ALIASES' = m.g.ALIASES
  /\ parse_runs' = m.g.runs
  /\ parse_log' = m.g.log
  /\ calls' = calls + 1
  /\ UNCHANGED <<file, pc, parsed, late>>

Idle == call.macro = "none" /\ calls < MaxCalls

(* #[attr_alias(args)] item *)
AttrAlias ==
  /\ Idle
  /\ \E args \in ArgStreams :
       Answer("attr_alias", args, <<Fn>>, TRUE,
              attr_alias(file, args, <<Fn>>, GetState(ALIASES, parse_runs, parse_log)))

(* eval_block! { item } *)
EvalBlock ==
  /\ Idle
  /\ \E item \in Items, cwd \in BOOLEAN :
       Answer("eval_block", <<>>, item, cwd,
              eval_block(file, cwd, item, GetState(ALIASES, parse_runs, parse_log)))

(* #[eval(args)] item *)
Eval ==
  /\ Idle
  /\ \E args \in {<<>>, <<Fn>>}, item \in Items, cwd \in BOOLEAN :
       Answer("eval", args, item, cwd,
              eval(file, cwd, args, item, GetState(ALIASES, parse_runs, parse_log)))

(* the compiler takes the output; the process waits for the next call *)
TakeOutput ==
  /\ call.macro # "none"
  /\ call' = NoCall
  /\ ret' = NoRet
  /\ UNCHANGED <<file, ALIASES, parse_runs, parse_log, calls, pc, parsed, late>>

Next == AttrAlias \/ EvalBlock \/ Eval \/ TakeOutput

Spec == Init /\ [][Next]_vars

-----------------------------------------------------------------------------
(* The loader alone: calls of Aliases::get, one after the other, on every   *)
(* alias file of up to MaxDefs definitions                                  *)

InitLoad == file \in Files /\ InitShared

(* one call of Aliases::get, run without interruption *)
Get ==
  /\ calls < MaxCalls
  /\ LET a == get(GetState(ALIASES, parse_runs, parse_log), file)
     IN /\ ALIASES' = a.g.ALIASES
        /\ parse_runs' = a.g.runs
        /\ parse_log' = a.g.log
  /\ calls' = calls + 1
  /\ UNCHANGED <<file, call, ret, pc, parsed, late>>

NextLoad == Get

SpecLoad == InitLoad /\ [][NextLoad]_vars

-----------------------------------------------------------------------------
(* Aliases::get step by step, called from several threads                   *)

InitGet == file \in MacroFiles /\ InitShared

(* a thread enters Aliases::get *)
GetEnter(t) ==
  /\ pc[t] = "idle"
  /\ calls < MaxCalls
  /\ calls' = calls + 1
  /\ pc' = [pc EXCEPT ![t] = "is_none"]
  /\ late' = [late EXCEPT ![t] = ALIASES.set]
  /\ UNCHANGED <<file, ALIASES, parse_runs, parse_log, call, ret, parsed>>

(* if ALIASES.get().is_none() *)
GetIsNone(t) ==
  /\ pc[t] = "is_none"
  /\ pc' = [pc EXCEPT ![t] = IF is_none(ALIASES) THEN "parse" ELSE "expect"]
  /\ UNCHANGED <<file, ALIASES, parse_runs, parse_log, calls, call, ret, parsed, late>>

(* Self::parse()?: an error is returned to the caller at once *)
GetParse(t) ==
  /\ pc[t] = "parse"
  /\ parse_runs' = parse_runs + 1
  /\ parse_log' = parse(file)
  /\ pc' = [pc EXCEPT ![t] = IF parse(file).ok THEN "set" ELSE "idle"]
  /\ parsed' = [parsed EXCEPT ![t] = IF parse(file).ok THEN parse(file).val ELSE @]
  /\ UNCHANGED <<file, ALIASES, calls, call, ret, late>>

(* let _ = ALIASES.set(..) *)
GetSet(t) ==
  /\ pc[t] = "set"
  /\ ALIASES' = OnceLock_set(ALIASES, parsed[t])
  /\ pc' = [pc EXCEPT ![t] = "expect"]
  /\ UNCHANGED <<file, parse_runs, parse_log, calls, call, ret, parsed, late>>

(* Ok(ALIASES.get().expect("error getting aliases")) *)
GetExpect(t) ==
  /\ pc[t] = "expect"
  /\ ALIASES.set
  /\ pc' = [pc EXCEPT ![t] = "idle"]
  /\ UNCHANGED <<file, ALIASES, parse_runs, parse_log, calls, call, ret, parsed, late>>

NextGet ==
  \E t \in Threads :
    GetEnter(t) \/ GetIsNone(t) \/ GetParse(t) \/ GetSet(t) \/ GetExpect(t)

SpecGet == InitGet /\ [][NextGet]_vars


-----------------------------------------------------------------------------
(* Properties of the resolver (checked under Spec)                          *)

(* the result text is the text with its first "*" replaced by the alias,    *)
(* and the text itself when it has no "*"                                   *)
FirstStarReplaced(text, alias, result) ==
  IF \E i \in 1 .. Len(text) : text[i] = "*"
    THEN \E i \in 1 .. Len(text) :
           /\ text[i] = "*"
           /\ \A j \in 1 .. i - 1 : text[j] # "*"
           /\ result = SubSeq(text, 1, i - 1) \o alias \o SubSeq(text, i + 1, Len(text))
    ELSE result = text

Stars(text) == Cardinality({i \in 1 .. Len(text) : text[i] = "*"})

(* an attr_alias call answered from a loaded table *)
Resolved == call.macro = "attr_alias" /\ ALIASES.set

(* the arguments are a name, a comma and a non-empty pattern *)
HasPattern(args) ==
  /\ Len(args) >= 3
  /\ args[1].k = "Ident"
  /\ is_comma(args[2])
  /\ \A i \in 3 .. Len(args) : ~is_comma(args[i])

(* the arguments are a name alone, or a name and a comma *)
NoPattern(args) ==
  /\ Len(args) \in {1, 2}
  /\ args[1].k = "Ident"
  /\ Len(args) = 2 => is_comma(args[2])

SuppliedPattern(args) == SubSeq(args, 3, Len(args))

StartsWithAttrAlias(stream) ==
  stream # <<>> /\ stream[1].k = "Ident" /\ stream[1].s = ATTR_ALIAS

(* C1, as claimed: for a name that is a key of the table and an explicit    *)
(* non-empty pattern, the result is the pattern with its first "*" replaced *)
(* by the alias's expansion and nothing else changed                        *)
C1_AnyPatternFirstStar ==
  (Resolved /\ HasPattern(call.args) /\ call.args[1].s \in DOMAIN ALIASES.table
     /\ call.args[1].s # DEFAULT_NAME)
    => /\ ret.ok
       /\ FirstStarReplaced(to_string(SuppliedPattern(call.args)),
                            ALIASES.table[call.args[1].s], to_string(ret.val))

(* C1, amended: for a name (not "default") that is a key of the table and   *)
(* an explicit non-empty pattern that does not start with the identifier    *)
(* attr_alias, the result is the pattern with its first "*" replaced by the *)
(* alias's expansion, later "*" are kept, and a pattern without "*" comes   *)
(* back as it is.  A pattern that starts with attr_alias is first resolved  *)
(* as an invocation of its own: its resolution takes the place of the       *)
(* pattern, and an error of that resolution is the error of the call.       *)
C1_FirstStarOfResolvedPattern ==
  (Resolved /\ HasPattern(call.args) /\ call.args[1].s \in DOMAIN ALIASES.table
     /\ call.args[1].s # DEFAULT_NAME)
    => IF ~StartsWithAttrAlias(SuppliedPattern(call.args))
         THEN /\ ret.ok
              /\ FirstStarReplaced(to_string(SuppliedPattern(call.args)),
                                   ALIASES.table[call.args[1].s], to_string(ret.val))
         ELSE IF resolve(ALIASES.table, SuppliedPattern(call.args)).ok
           THEN /\ ret.ok
                /\ FirstStarReplaced(
                     to_string(resolve(ALIASES.table, SuppliedPattern(call.args)).val.attr),
                     ALIASES.table[call.args[1].s], to_string(ret.val))
           ELSE /\ ~ret.ok
                /\ ret.err = resolve(ALIASES.table, SuppliedPattern(call.args)).err

(* a call with a pattern of two "*" has been answered: one "*" is left *)
C1_Witness ==
  /\ Resolved /\ HasPattern(call.args)
  /\ call.args[1].s \in DOMAIN ALIASES.table
  /\ call.args[1].s # DEFAULT_NAME
  /\ ~StartsWithAttrAlias(SuppliedPattern(call.args))
  /\ Stars(to_string(SuppliedPattern(call.args))) = 2
  /\ Stars(ALIASES.table[call.args[1].s]) = 0
  /\ ret.ok
  /\ Stars(to_string(ret.val)) = 1

(* C2: with no pattern, or an empty one, a name that is a key of the table  *)
(* and is not "default" resolves to the default alias with its first "*"    *)
(* replaced by the alias's expansion, and to the alias's expansion itself   *)
(* when the table has no default alias                                      *)
C2_DefaultPattern ==
  (Resolved /\ NoPattern(call.args) /\ call.args[1].s \in DOMAIN ALIASES.table
     /\ call.args[1].s # DEFAULT_NAME)
    => /\ ret.ok
       /\ IF DEFAULT_NAME \in DOMAIN ALIASES.table
            THEN FirstStarReplaced(ALIASES.table[DEFAULT_NAME],
                                   ALIASES.table[call.args[1].s], to_string(ret.val))
            ELSE to_string(ret.val) = ALIASES.table[call.args[1].s]

(* a call without a pattern has been answered from a table with a default   *)
(* alias that has a "*"                                                     *)
C2_Witness ==
  /\ Resolved /\ NoPattern(call.args)
  /\ call.args[1].s \in DOMAIN ALIASES.table
  /\ call.args[1].s # DEFAULT_NAME
  /\ DEFAULT_NAME \in DOMAIN ALIASES.table
  /\ Stars(ALIASES.table[DEFAULT_NAME]) = 1
  /\ ret.ok
  /\ to_string(ret.val) # ALIASES.table[call.args[1].s]

(* the arguments are a name, then nothing, or a comma and a pattern that    *)
(* only a last comma may follow                                             *)
WellFormedArgs(args) ==
  /\ Len(args) >= 1
  /\ args[1].k = "Ident"
  /\ Len(args) >= 2 => is_comma(args[2])
  /\ \A i \in 3 .. Len(args) - 1 : ~is_comma(args[i])

ReservedAliasName ==
  [message |-> "unknown alias 'default'", span |-> Ident(DEFAULT_NAME)]

(* the alias file whose second definition invokes "default" *)
InvokesDefault(f) ==
  f = OnFile(<<Def(DEFAULT_NAME, <<Ident("cfg"), Paren(<<Star>>)>>),
               Def("a", Invocation(<<Ident(DEFAULT_NAME)>>))>>)

(* C6: an invocation of the name "default" never returns tokens, whatever   *)
(* the table and the pattern; from a loaded table and with well-formed      *)
(* arguments its error is the one of the reserved name; the same error ends *)
(* the load of an alias file in which a definition invokes "default"        *)
C6_DefaultReserved ==
  /\ (call.macro = "attr_alias" /\ call.args # <<>>
        /\ call.args[1] = Ident(DEFAULT_NAME))
       => /\ ~ret.ok
          /\ (ALIASES.set /\ WellFormedArgs(call.args)) => ret.err = ReservedAliasName
  /\ (InvokesDefault(file) /\ parse_runs > 0)
       => ~parse_log.ok /\ parse_log.err = ReservedAliasName /\ ~ALIASES.set

(* "default" has been invoked with a pattern on a table that has a default  *)
(* alias                                                                    *)
C6_Witness ==
  /\ Resolved /\ HasPattern(call.args)
  /\ call.args[1] = Ident(DEFAULT_NAME)
  /\ DEFAULT_NAME \in DOMAIN ALIASES.table
  /\ ret.err = ReservedAliasName


(* an eval_block call on "#[body]", followed at most by a token that is no  *)
(* group, answered from a loaded table: the body is what Aliases::resolve   *)
(* was called on                                                            *)
OneAttribute ==
  /\ call.macro = "eval_block"
  /\ ALIASES.set
  /\ Len(call.item) \in {2, 3}
  /\ call.item[1] = Hash
  /\ call.item[2].k = "Group" /\ call.item[2].s = "Bracket"
  /\ Len(call.item) = 3 => call.item[3].k # "Group"

Body == call.item[2].ts

(* attr_alias, one parenthesis group, and nothing else *)
FullShape(stream) ==
  /\ Len(stream) = 2
  /\ StartsWithAttrAlias(stream)
  /\ stream[2].k = "Group" /\ stream[2].s = "Parenthesis"

UnexpectedMessages == {"unexpected token", "unexpected end of tokens"}

(* C7, as claimed: whenever the body does not have the full invocation      *)
(* shape, Aliases::resolve returns false, raises no error and leaves the    *)
(* body as it is                                                            *)
C7_NotFullShapeIsFalse ==
  (OneAttribute /\ ~FullShape(Body))
    => ret.ok /\ ~ret.resolved /\ ret.val = call.item

(* C7, amended: Aliases::resolve returns false, raises no error and leaves  *)
(* the body as it is whenever the body does not start with the identifier   *)
(* attr_alias (an empty body included); when the body starts with           *)
(* attr_alias and is not attr_alias followed by one parenthesis group and   *)
(* nothing else, it fails with "unexpected token" or "unexpected end of     *)
(* tokens"; it returns true only for a body of the full shape, after        *)
(* overwriting it with the resolved tokens                                  *)
C7_ResolveShape ==
  OneAttribute
    => /\ ~StartsWithAttrAlias(Body)
            => ret.ok /\ ~ret.resolved /\ ret.val = call.item
       /\ (StartsWithAttrAlias(Body) /\ ~FullShape(Body))
            => /\ ~ret.ok /\ ~ret.resolved
               /\ ret.err.message \in UnexpectedMessages
       /\ ret.resolved
            => /\ FullShape(Body) /\ ret.ok
               /\ resolve_args(ALIASES.table, Body[2].ts).ok
               /\ ret.val[2] = Bracket(resolve_args(ALIASES.table, Body[2].ts).val)

(* a body that starts with attr_alias and has more after the parenthesis    *)
(* group has been handed to Aliases::resolve, which failed                  *)
C7_Witness ==
  /\ OneAttribute
  /\ StartsWithAttrAlias(Body) /\ Len(Body) = 3
  /\ ret.handed = <<Body>>
  /\ ~ret.ok
  /\ ret.err.message = "unexpected token"

-----------------------------------------------------------------------------
(* Properties of the tree walker (checked under Spec)                       *)

(* the token at position i follows "#", or "#" and then only "!" *)
RECURSIVE Marked(_, _)
Marked(stream, i) ==
  /\ i > 1
  /\ stream[i - 1].k = "Punct"
  /\ \/ stream[i - 1].s = "#"
     \/ stream[i - 1].s = "!" /\ Marked(stream, i - 1)

IsAttribute(stream, i) ==
  stream[i].k = "Group" /\ stream[i].s = "Bracket" /\ Marked(stream, i)

(* the bodies of the attribute groups of a tree, in order: the bracket      *)
(* groups that follow the marker in their own stream, looked for in every   *)
(* other group                                                              *)
RECURSIVE AttributeBodies(_)
AttributeBodies(stream) ==
  IF stream = <<>> THEN <<>>
  ELSE LET i == Len(stream)
       IN AttributeBodies(SubSeq(stream, 1, i - 1))
            \o (IF stream[i].k # "Group" THEN <<>>
                ELSE IF IsAttribute(stream, i) THEN <<stream[i].ts>>
                ELSE AttributeBodies(stream[i].ts))

(* the tree with every attribute group's body replaced by what              *)
(* Aliases::resolve leaves in it, and all else as it was                    *)
RECURSIVE Rewritten(_, _)
Rewritten(stream, table) ==
  [i \in 1 .. Len(stream) |->
     IF stream[i].k # "Group" THEN stream[i]
     ELSE IF IsAttribute(stream, i)
       THEN Group(stream[i].s, resolve(table, stream[i].ts).val.attr)
     ELSE Group(stream[i].s, Rewritten(stream[i].ts, table))]

IsPrefix(p, q) == Len(p) <= Len(q) /\ SubSeq(q, 1, Len(p)) = p

Walked ==
  call.macro = "eval_block" \/ (call.macro = "eval" /\ call.args = <<>>)

(* C8: the groups handed to Aliases::resolve are the bracket groups that    *)
(* follow "#" (and then any "!") in their own stream, at every depth below  *)
(* groups that are not such attributes; a walk that succeeds returns the    *)
(* tree with those groups resolved and every other token as it was          *)
C8_WalkFindsAttributes ==
  Walked
    => /\ IsPrefix(ret.handed, AttributeBodies(call.item))
       /\ ret.ok
            => /\ ret.handed = AttributeBodies(call.item)
               /\ ret.val = Rewritten(call.item, ALIASES.table)
               /\ ret.resolved
                    = (\E i \in 1 .. Len(ret.handed) : FullShape(ret.handed[i]))

(* an invocation three groups deep has been found and resolved *)
C8_Witness ==
  /\ call.macro = "eval_block"
  /\ Len(call.item) = 1
  /\ call.item[1].k = "Group" /\ call.item[1].s = "Brace"
  /\ Len(AttributeBodies(call.item)) = 1
  /\ ret.ok /\ ret.resolved
  /\ ret.handed = AttributeBodies(call.item)
  /\ ret.val # call.item

(* the number of compile_error! diagnostics of an output *)
Diagnostics(out) ==
  Cardinality({i \in 1 .. Len(out) : out[i] = Ident("compile_error")})

(* C9, as claimed: the output of a whole-item rewrite whose walk has failed *)
(* is the diagnostic of the walk's error and nothing else                   *)
C9_SingleDiagnostic ==
  (call.macro = "eval_block" /\ ~ret.ok)
    => ret.out = into_compile_error(ret.err)


-----------------------------------------------------------------------------
(* Properties of the loader (checked under SpecLoad)                        *)

(* Aliases::parse has run on a file written from a list of definitions *)
Loaded == file.listed /\ parse_runs > 0

NDefs == Len(file.defs)

DefName(i) == file.defs[i].name

DefValue(i) == file.defs[i].value

(* the names defined before definition i *)
EarlierNames(i) == {DefName(j) : j \in 1 .. i - 1}

(* the names invoked anywhere in a stream, at any depth *)
RECURSIVE InvokedIn(_)
InvokedIn(stream) ==
  UNION {
    (IF /\ stream[i] = Ident(ATTR_ALIAS)
        /\ i < Len(stream)
        /\ stream[i + 1].k = "Group" /\ stream[i + 1].s = "Parenthesis"
        /\ stream[i + 1].ts # <<>>
        /\ stream[i + 1].ts[1].k = "Ident"
       THEN {stream[i + 1].ts[1].s} ELSE {})
    \cup (IF stream[i].k = "Group" THEN InvokedIn(stream[i].ts) ELSE {})
    : i \in 1 .. Len(stream)}

(* the value of definition i is, as a whole, an invocation of a name *)
WholeRef(i) ==
  /\ FullShape(DefValue(i))
  /\ DefValue(i)[2].ts # <<>>
  /\ DefValue(i)[2].ts[1].k = "Ident"

RefName(i) == DefValue(i)[2].ts[1].s

(* definition i is an invocation of a name that is not defined earlier *)
RefsNotEarlier(i) == WholeRef(i) /\ RefName(i) \notin EarlierNames(i)

(* definition i is an invocation that does not resolve *)
RefFails(i) ==
  WholeRef(i) /\ (RefName(i) \notin EarlierNames(i) \/ RefName(i) = DEFAULT_NAME)

(* definition i repeats the name of an earlier definition *)
Repeats(i) == DefName(i) \in EarlierNames(i)

AliasNames == DefNames \cup InvokedNames

IsUnknownAlias(error) ==
  \E n \in AliasNames : error.message = "unknown alias '" \o n \o "'"

IsDuplicateAlias(error) == error.message = "duplicate alias name in alias file"

(* C3, as claimed: a file with an invocation, anywhere in a value, of a     *)
(* name that is not defined earlier fails to load with UnknownAlias         *)
C3_AnyReferenceUnknownAlias ==
  (Loaded /\ \E i \in 1 .. NDefs : ~(InvokedIn(DefValue(i)) \subseteq EarlierNames(i)))
    => ~parse_log.ok /\ IsUnknownAlias(parse_log.err) /\ ~ALIASES.set

(* C3, amended: a file with a definition whose value is, as a whole, an     *)
(* invocation of a name that is not defined earlier (a later name, its own  *)
(* name, a name never defined) fails to load and produces no table; the     *)
(* error is UnknownAlias unless an earlier definition repeats a name (that  *)
(* error ends the load first).  An invocation that is only a part of a      *)
(* value is not resolved by the load and does not fail it: a file of        *)
(* uniquely named definitions none of which starts with attr_alias loads.   *)
C3_WholeValueReference ==
  /\ (Loaded /\ \E i \in 1 .. NDefs : RefsNotEarlier(i))
       => /\ ~parse_log.ok /\ ~ALIASES.set
          /\ LET first == CHOOSE i \in 1 .. NDefs :
                            RefsNotEarlier(i) /\ \A j \in 1 .. i - 1 : ~RefsNotEarlier(j)
             IN (\A j \in 1 .. first - 1 : ~Repeats(j))
                  => IsUnknownAlias(parse_log.err)
  /\ (Loaded /\ NDefs >= 1
        /\ \A i \in 1 .. NDefs : ~Repeats(i) /\ ~StartsWithAttrAlias(DefValue(i)))
       => parse_log.ok /\ ALIASES.set

(* a file whose second definition invokes its own name has failed to load *)
C3_Witness ==
  /\ Loaded /\ NDefs = 2
  /\ ~WholeRef(1)
  /\ RefsNotEarlier(2) /\ RefName(2) = DefName(2)
  /\ ~parse_log.ok
  /\ parse_log.err.message = "unknown alias '" \o DefName(2) \o "'"

C5_DuplicateAlways ==
  (Loaded /\ \E i \in 1 .. NDefs : Repeats(i))
    => ~parse_log.ok /\ IsDuplicateAlias(parse_log.err) /\ ~ALIASES.set

(* C5, amended: a file that defines a name more than once fails to load and *)
(* produces no table; the error is DuplicateAlias when no definition up to  *)
(* and including the first repeated one fails to resolve, and the error of  *)
(* that definition otherwise (the first error ends the load)                *)
C5_DuplicateUnlessEarlierError ==
  (Loaded /\ \E i \in 1 .. NDefs : Repeats(i))
    => /\ ~parse_log.ok /\ ~ALIASES.set
       /\ LET first == CHOOSE i \in 1 .. NDefs :
                         Repeats(i) /\ \A j \in 1 .. i - 1 : ~Repeats(j)
          IN IF \A j \in 1 .. first : ~RefFails(j)
               THEN IsDuplicateAlias(parse_log.err)
               ELSE IsUnknownAlias(parse_log.err)

(* a file that defines the same name twice, with values that resolve, has   *)
(* failed to load                                                           *)
C5_Witness ==
  /\ Loaded /\ NDefs = 2
  /\ DefName(1) = DefName(2)
  /\ ~RefFails(1) /\ ~RefFails(2)
  /\ IsDuplicateAlias(parse_log.err)
  /\ ~ALIASES.set

-----------------------------------------------------------------------------
(* Properties of the entries of a loaded table (checked under SpecLoad)     *)

(* the text has an invocation attr_alias(...) somewhere *)
HasInvocation(text) ==
  \E i \in 1 .. Len(text) - 1 : text[i] = ATTR_ALIAS /\ text[i + 1] = "("

(* the arguments of the invocation that definition i is *)
RefArgs(i) == DefValue(i)[2].ts

(* C11, as claimed: after a successful load no entry of the table has an    *)
(* invocation attr_alias(...) anywhere in its tokens                        *)
C11_NoInvocationAnywhere ==
  (Loaded /\ ALIASES.set)
    => \A n \in DOMAIN ALIASES.table : ~HasInvocation(ALIASES.table[n])

(* C11, amended: after a successful load no entry of the table starts with  *)
(* the identifier attr_alias: a definition that is, as a whole, an          *)
(* invocation of an earlier alias is stored expanded (its pattern with the  *)
(* first "*" replaced by the entry of the alias invoked), while a           *)
(* definition that does not start with attr_alias is stored as written, an  *)
(* invocation nested inside its tokens included                             *)
C11_NoWholeInvocationStored ==
  (Loaded /\ ALIASES.set)
    => /\ \A n \in DOMAIN ALIASES.table :
            ALIASES.table[n] = <<>> \/ ALIASES.table[n][1] # ATTR_ALIAS
       /\ \A i \in 1 .. NDefs :
            /\ ~StartsWithAttrAlias(DefValue(i))
                 => ALIASES.table[DefName(i)] = to_string(DefValue(i))
            /\ (WholeRef(i) /\ HasPattern(RefArgs(i))
                  /\ ~StartsWithAttrAlias(SuppliedPattern(RefArgs(i))))
                 => FirstStarReplaced(to_string(SuppliedPattern(RefArgs(i))),
                                      ALIASES.table[RefName(i)],
                                      ALIASES.table[DefName(i)])

(* a file whose second definition invokes the first with a pattern has      *)
(* loaded: the entry stored is the pattern around the first entry           *)
C11_Witness ==
  /\ Loaded /\ ALIASES.set /\ NDefs = 2
  /\ WholeRef(2) /\ HasPattern(RefArgs(2))
  /\ RefName(2) = DefName(1)
  /\ ~HasInvocation(ALIASES.table[DefName(2)])
  /\ ALIASES.table[DefName(2)] # ALIASES.table[DefName(1)]
  /\ Stars(ALIASES.table[DefName(2)]) = Stars(ALIASES.table[DefName(1)])

-----------------------------------------------------------------------------
(* Properties of Aliases::get (checked under SpecGet)                       *)

(* C10, as claimed: Aliases::parse runs at most once in the process *)
C10_ParseAtMostOnce == parse_runs <= 1

(* C10, amended: Aliases::parse runs at most once in a call of              *)
(* Aliases::get, and in no call that begins after a table has been stored;  *)
(* the table stored is the first one stored and never changes.  (A call     *)
(* after a failed run parses again, and so does each of several calls that  *)
(* find the table not yet stored.)                                          *)
C10_NoParseOnceStored ==
  /\ \A t \in Threads : late[t] => pc[t] \in {"idle", "is_none", "expect"}
  /\ parse_runs <= calls
  /\ ALIASES.set => parse_log.ok /\ ALIASES.table = parse_log.val

(* a call that began after the table was stored is about to return it, and  *)
(* parse has run once                                                       *)
C10_Witness ==
  /\ \E t \in Threads : late[t] /\ pc[t] = "expect"
  /\ parse_runs = 1
  /\ calls = 2


====
